---- MODULE Spec2Model ----
(***************************************************************************)
(* Model of the credential-injection proxy: the host authorization gates   *)
(* (inject.py _is_host_whitelisted, strategies/base.py validate_host), the *)
(* request dispatcher UniversalCredentialInjector.request, and the Bearer, *)
(* Gemini and AWS SigV4 strategies.                                        *)
(*                                                                         *)
(* A Python string is a sequence of tokens.  A token is a character or an  *)
(* atomic word ("openai", "DUMMY_OPENAI_KEY"); the words never overlap, so *)
(* ==, in, startswith, endswith and replace on token sequences agree with  *)
(* the same operations on the strings they stand for.                      *)
(***************************************************************************)
EXTENDS Integers, Sequences, FiniteSets, TLC

VARIABLES
    credentials,          \* self.credentials, in insertion order
    telemetry_blocklist,  \* self.telemetry_blocklist
    env,                  \* os.environ restricted to the credential variables
    env_at_load,          \* os.environ as it was when the injector was constructed
    config_file,          \* the file at CREDENTIAL_CONFIG_PATH that _load_config reads
    stats,                \* self.stats
    flow,                 \* the flow handed to the last call, as the call left it
    flow_in,              \* the same flow as it was on entry
    stats_in,             \* self.stats on entry of the last request()
    logs,                 \* log records emitted during the last call
    found,                \* credentials whose dummy the last request() found
    passthroughs,         \* number of request() calls that left their flow untouched
    op,                   \* the last operation called
    outcome,              \* how it ended: "none", "returned", "raised"
    strategy,             \* the strategy object of the strategy calls
    config,               \* the config dict handed to the last strategy constructor
    gate_host,            \* host argument of the last gate call
    gate_allowed,         \* allowed_hosts argument of the last gate call
    gate_result,          \* its return value
    threads               \* the request() calls running on their own threads

vars == <<credentials, telemetry_blocklist, env, env_at_load, config_file, stats, flow, flow_in, stats_in,
          logs, found, passthroughs, op, outcome, strategy, config, gate_host, gate_allowed,
          gate_result, threads>>

injectorVars ==
    <<credentials, telemetry_blocklist, env, env_at_load, config_file, stats, stats_in, found,
      passthroughs, threads>>
flowVars     == <<flow, flow_in, logs, outcome>>
gateVars     == <<gate_host, gate_allowed, gate_result>>

----------------------------------------------------------------------------
(* Python str operations on token sequences *)

\* str.lower() of one token
LowerTok(t) ==
    CASE t = "A"         -> "a"
      [] t = "API"       -> "api"
      [] t = "OPENAI"    -> "openai"
      [] t = "COM"       -> "com"
      [] t = "AAA"       -> "aaa"
      [] t = "AMAZONAWS" -> "amazonaws"
      [] t = "SENTRY"    -> "sentry"
      [] t = "IO"        -> "io"
      [] OTHER           -> t

\* str.lower()
Lower(s) == [i \in 1..Len(s) |-> LowerTok(s[i])]

\* str.startswith(p)
StartsWith(s, p) == Len(p) <= Len(s) /\ SubSeq(s, 1, Len(p)) = p

\* str.endswith(p)
EndsWith(s, p) == Len(p) <= Len(s) /\ SubSeq(s, Len(s) - Len(p) + 1, Len(s)) = p

\* s[n:]
DropFirst(s, n) == SubSeq(s, n + 1, Len(s))

\* sub in s
Contains(s, sub) == \E i \in 1..(Len(s) - Len(sub) + 1) : SubSeq(s, i, i + Len(sub) - 1) = sub

\* s.replace(old, new), old non-empty: every non-overlapping occurrence, left to right
RECURSIVE Replace(_, _, _)
Replace(s, old, new) ==
    IF Len(s) < Len(old) THEN s
    ELSE IF SubSeq(s, 1, Len(old)) = old
         THEN new \o Replace(DropFirst(s, Len(old)), old, new)
         ELSE <<s[1]>> \o Replace(Tail(s), old, new)

Dot  == <<".">>
Star == <<"*", ".">>

----------------------------------------------------------------------------
(* The authorization gates *)

\* _is_host_whitelisted: the loop over cred.allowed_hosts from position i
RECURSIVE WhitelistedFrom(_, _, _)
WhitelistedFrom(allowed_hosts, host_lower, i) ==
    IF i > Len(allowed_hosts) THEN FALSE
    ELSE LET allowed_lower == Lower(allowed_hosts[i]) IN
         IF host_lower = allowed_lower THEN TRUE
         ELSE IF StartsWith(allowed_lower, Star)
                 /\ LET domain == DropFirst(allowed_lower, 2) IN
                    EndsWith(host_lower, Dot \o domain) \/ host_lower = domain
              THEN TRUE
         ELSE IF EndsWith(host_lower, Dot \o allowed_lower) THEN TRUE
         ELSE WhitelistedFrom(allowed_hosts, host_lower, i + 1)

\* the loop with the subdomain suffix tests made without the separating dot
RECURSIVE WhitelistedFromNoDot(_, _, _)
WhitelistedFromNoDot(allowed_hosts, host_lower, i) ==
    IF i > Len(allowed_hosts) THEN FALSE
    ELSE LET allowed_lower == Lower(allowed_hosts[i]) IN
         IF host_lower = allowed_lower THEN TRUE
         ELSE IF StartsWith(allowed_lower, Star)
                 /\ LET domain == DropFirst(allowed_lower, 2) IN
                    EndsWith(host_lower, domain) \/ host_lower = domain
              THEN TRUE
         ELSE IF EndsWith(host_lower, allowed_lower) THEN TRUE
         ELSE WhitelistedFromNoDot(allowed_hosts, host_lower, i + 1)

IsHostWhitelistedNoDot(allowed_hosts, host) ==
    WhitelistedFromNoDot(allowed_hosts, Lower(host), 1)

\* UniversalCredentialInjector._is_host_whitelisted(cred, host), cred.allowed_hosts given
IsHostWhitelisted(allowed_hosts, host) ==
    WhitelistedFrom(allowed_hosts, Lower(host), 1)

\* validate_host, the condition of its wildcard branch.  Python reads
\*   A or B if C else D   as   (A or B) if C else D
WildcardTest(host, domain) ==
    IF StartsWith(domain, Dot)
    THEN EndsWith(host, domain) \/ host = DropFirst(domain, 1)
    ELSE host = domain

\* InjectionStrategy.validate_host: the loop over allowed_hosts from position i
RECURSIVE ValidateFrom(_, _, _)
ValidateFrom(allowed_hosts, host, i) ==
    IF i > Len(allowed_hosts) THEN FALSE
    ELSE LET allowed_lower == Lower(allowed_hosts[i]) IN
         IF host = allowed_lower THEN TRUE
         ELSE IF StartsWith(allowed_lower, Star)
                 /\ WildcardTest(host, DropFirst(allowed_lower, 2))
              THEN TRUE
         ELSE ValidateFrom(allowed_hosts, host, i + 1)

\* InjectionStrategy.validate_host(flow, allowed_hosts), flow.request.pretty_host given
ValidateHost(allowed_hosts, host) ==
    ValidateFrom(allowed_hosts, Lower(host), 1)

----------------------------------------------------------------------------
(* Inputs of the gate calls *)

MaxHostLen == 3
MaxAllow   == 2

GateChars == {"a", "A", "."}

\* all strings over A of length at most n
RECURSIVE Strs(_, _)
Strs(A, n) ==
    IF n = 0 THEN {<<>>}
    ELSE LET S == Strs(A, n - 1) IN
         S \cup {Append(s, c) : s \in {t \in S : Len(t) = n - 1}, c \in A}

\* hosts and patterns named in the tests and the specification
s3_amazonaws_com        == <<"s3", ".", "amazonaws", ".", "com">>
ec2_amazonaws_com       == <<"ec2", ".", "us-east-1", ".", "amazonaws", ".", "com">>
s3_west_amazonaws_com   == <<"s3", ".", "us-west-2", ".", "amazonaws", ".", "com">>
amazonaws_com           == <<"amazonaws", ".", "com">>
AAA_AMAZONAWS_COM       == <<"AAA", ".", "AMAZONAWS", ".", "COM">>
evil_com                == <<"evil", ".", "com">>
amazonaws_com_evil_com  == <<"amazonaws", ".", "com", ".", "evil", ".", "com">>
openai_com              == <<"openai", ".", "com">>
api_openai_com          == <<"api", ".", "openai", ".", "com">>
API_OPENAI_COM          == <<"API", ".", "OPENAI", ".", "COM">>
api_openai_com_evil_com == <<"api", ".", "openai", ".", "com", ".", "evil", ".", "com">>
\* "U+0430" stands for the Cyrillic letter a: the label is U+0430 followed by "pi"
cyrillic_api_openai_com == <<"U+0430", "pi", ".", "openai", ".", "com">>
github_com              == <<"github", ".", "com">>
api_github_com          == <<"api", ".", "github", ".", "com">>
sentry_io               == <<"sentry", ".", "io">>
googleapis_com          == <<"generativelanguage", ".", "googleapis", ".", "com">>

NamedHosts ==
    {s3_amazonaws_com, ec2_amazonaws_com, amazonaws_com, AAA_AMAZONAWS_COM, evil_com,
     amazonaws_com_evil_com, openai_com, api_openai_com, api_openai_com_evil_com,
     cyrillic_api_openai_com, github_com, api_github_com}

GateHosts == Strs(GateChars, MaxHostLen) \cup NamedHosts

GatePatterns ==
    {<<"a">>, <<"A">>, <<"a", ".", "a">>, <<".", "a">>,
     Star \o <<"a">>, Star \o <<"A">>, Star \o <<".", "a">>,
     Star \o amazonaws_com, openai_com, github_com}

\* all lists over S of length at most n
RECURSIVE Lists(_, _)
Lists(S, n) ==
    IF n = 0 THEN {<<>>}
    ELSE LET L == Lists(S, n - 1) IN
         L \cup {Append(l, p) : l \in {t \in L : Len(t) = n - 1}, p \in S}

GateAllowlists == Lists(GatePatterns, MaxAllow)

----------------------------------------------------------------------------
(* Values of the variables a specification does not use *)

Absent == <<"<absent>">>

NoFlow == [host |-> <<>>]

IdleInjector ==
    /\ credentials = <<>>
    /\ telemetry_blocklist = <<>>
    /\ env = <<>>
    /\ env_at_load = <<>>
    /\ config_file = <<>>
    /\ stats = <<>>
    /\ stats_in = <<>>
    /\ found = {}
    /\ passthroughs = 0
    /\ threads = <<>>

IdleFlow ==
    /\ flow = NoFlow
    /\ flow_in = NoFlow
    /\ logs = <<>>
    /\ outcome = "none"

----------------------------------------------------------------------------
(* UniversalCredentialInjector: configuration *)

None == <<"<None>">>

\* CredentialConfig
Cred(service, display, dummy, var, headers, params, hosts) ==
    [service_name |-> service, display_name |-> display, dummy_token |-> <<dummy>>,
     env_var |-> var, header_locations |-> headers, query_param_names |-> params,
     allowed_hosts |-> hosts]

HeaderLoc(name, format) == [name |-> name, format |-> format]

BearerFormat == <<"Bearer", " ", "{token}">>
TokenFormat  == <<"token", " ", "{token}">>
PlainFormat  == <<"{token}">>
AwsFormat    == <<"AWS4-HMAC-SHA256", " ", "Credential=", "{token}">>

OpenAICred ==
    Cred("openai", "OpenAI API", "DUMMY_OPENAI_KEY", "REAL_OPENAI_API_KEY",
         <<HeaderLoc("Authorization", BearerFormat)>>, <<>>,
         <<api_openai_com, openai_com>>)

GitHubCred ==
    Cred("github", "GitHub Token", "DUMMY_GITHUB_TOKEN", "REAL_GITHUB_TOKEN",
         <<HeaderLoc("Authorization", TokenFormat), HeaderLoc("X-GitHub-Token", PlainFormat)>>,
         <<>>,
         <<api_github_com, github_com, <<"github", ".", "ibm", ".", "com">>,
           <<"raw", ".", "githubusercontent", ".", "com">> >>)

AnthropicCred ==
    Cred("anthropic", "Anthropic API", "DUMMY_ANTHROPIC_KEY", "REAL_ANTHROPIC_API_KEY",
         <<HeaderLoc("x-api-key", PlainFormat)>>, <<>>,
         <<<<"api", ".", "anthropic", ".", "com">>, <<"anthropic", ".", "com">> >>)

AwsAccessCred ==
    Cred("aws_access", "AWS Access Key", "DUMMY_AWS_ACCESS_KEY", "REAL_AWS_ACCESS_KEY_ID",
         <<HeaderLoc("Authorization", AwsFormat)>>, <<>>,
         <<Star \o amazonaws_com, <<"aws", ".", "amazon", ".", "com">> >>)

AwsSecretCred ==
    Cred("aws_secret", "AWS Secret Key", "DUMMY_AWS_SECRET_KEY", "REAL_AWS_SECRET_ACCESS_KEY",
         <<>>, <<>>,
         <<Star \o amazonaws_com, <<"aws", ".", "amazon", ".", "com">> >>)

\* _load_legacy_config: legacy_credentials, in insertion order
LegacyCredentials ==
    <<OpenAICred, GitHubCred, AnthropicCred, AwsAccessCred, AwsSecretCred>>

\* _load_legacy_config: the legacy telemetry blocklist
LegacyTelemetry ==
    << <<"telemetry", ".", "anthropic", ".", "com">>,
       <<"analytics", ".", "anthropic", ".", "com">>,
       sentry_io,
       <<"segment", ".", "com">>,
       <<"mixpanel", ".", "com">>,
       <<"amplitude", ".", "com">>,
       <<"google-analytics", ".", "com">>,
       <<"googletagmanager", ".", "com">> >>

\* a credentials.yml as _load_config reads it: a credential that may travel in a
\* header or in a query parameter, before the OpenAI and GitHub entries
GeminiCred ==
    Cred("gemini", "Google Gemini", "DUMMY_GEMINI_KEY", "REAL_GEMINI_API_KEY",
         <<HeaderLoc("x-goog-api-key", PlainFormat)>>, <<"key">>,
         <<googleapis_com, Star \o <<"googleapis", ".", "com">> >>)

YamlCredentials == <<GeminiCred, OpenAICred, GitHubCred>>

YamlTelemetry == <<sentry_io>>

Configs ==
    {[credentials |-> LegacyCredentials, telemetry_blocklist |-> LegacyTelemetry],
     [credentials |-> YamlCredentials,   telemetry_blocklist |-> YamlTelemetry]}

EnvVars ==
    {"REAL_OPENAI_API_KEY", "REAL_GITHUB_TOKEN", "REAL_ANTHROPIC_API_KEY",
     "REAL_AWS_ACCESS_KEY_ID", "REAL_AWS_SECRET_ACCESS_KEY", "REAL_GEMINI_API_KEY"}

\* the secret each variable holds when it is set
SecretOf(var) ==
    CASE var = "REAL_OPENAI_API_KEY"        -> <<"sk-xyz">>
      [] var = "REAL_GITHUB_TOKEN"          -> <<"ghp_real">>
      [] var = "REAL_ANTHROPIC_API_KEY"     -> <<"sk-ant-real">>
      [] var = "REAL_AWS_ACCESS_KEY_ID"     -> <<"AKIAREAL">>
      [] var = "REAL_AWS_SECRET_ACCESS_KEY" -> <<"aws-secret-real">>
      [] var = "REAL_GEMINI_API_KEY"        -> <<"AIzaREAL">>

EnvAllSet == [v \in EnvVars |-> SecretOf(v)]

\* only the OpenAI and Gemini secrets are set
EnvPartial ==
    [v \in EnvVars |->
        IF v \in {"REAL_OPENAI_API_KEY", "REAL_GEMINI_API_KEY"} THEN SecretOf(v) ELSE None]

Envs == {EnvAllSet, EnvPartial}

----------------------------------------------------------------------------
(* UniversalCredentialInjector._load_config *)

MaxEntries == 2

\* an entry of the "credentials" mapping of credentials.yml: complete, or without
\* its dummy_token key
YamlEntries ==
    {[service_name |-> c.service_name, complete |-> TRUE, cred |-> c] :
        c \in {GeminiCred, OpenAICred, GitHubCred, AnthropicCred}}
    \cup {[service_name |-> "stripe", complete |-> FALSE, cred |-> <<>>]}

\* what open() and yaml.safe_load find at the configured path: no file, a file that
\* is not YAML, or a mapping with up to MaxEntries credentials (a YAML mapping has
\* no key twice) and a "security" key that is absent, a mapping, or present
\* without a value
ConfigFiles ==
    {[kind |-> k, entries |-> <<>>, security |-> "absent"] : k \in {"missing", "unparseable"}}
    \cup {[kind |-> "parsed", entries |-> e, security |-> sec] :
            e \in {l \in Lists(YamlEntries, MaxEntries) :
                      \A i, j \in 1..Len(l) : l[i].service_name = l[j].service_name => i = j},
            sec \in {"absent", "mapping", "null"}}

\* self.credentials[service_name] = cred on a dict kept in insertion order
Put(creds, cred) ==
    IF \E i \in 1..Len(creds) : creds[i].service_name = cred.service_name
    THEN [i \in 1..Len(creds) |->
             IF creds[i].service_name = cred.service_name THEN cred ELSE creds[i]]
    ELSE Append(creds, cred)

\* _load_legacy_config: the loop over legacy_credentials from position i
RECURSIVE LegacyFrom(_, _)
LegacyFrom(creds, i) ==
    IF i > Len(LegacyCredentials) THEN creds
    ELSE LegacyFrom(Put(creds, LegacyCredentials[i]), i + 1)

\* _load_legacy_config on an injector whose self.credentials is creds
LoadLegacyConfig(creds) ==
    [credentials |-> LegacyFrom(creds, 1), telemetry_blocklist |-> LegacyTelemetry]

\* _load_config: the loop over config['credentials'] from position i; a missing
\* dummy_token raises KeyError out of the loop
RECURSIVE ParseFrom(_, _, _)
ParseFrom(creds, entries, i) ==
    IF i > Len(entries) THEN [credentials |-> creds, raised |-> FALSE]
    ELSE IF ~entries[i].complete THEN [credentials |-> creds, raised |-> TRUE]
    ELSE ParseFrom(Put(creds, entries[i].cred), entries, i + 1)

\* _load_config on an injector whose self.credentials is creds and
\* self.telemetry_blocklist is blocklist
LoadConfigResult(creds, blocklist, file) ==
    IF file.kind \in {"missing", "unparseable"} THEN LoadLegacyConfig(creds)
    ELSE LET parsed == ParseFrom(creds, file.entries, 1) IN
         IF parsed.raised \/ file.security = "null"
         THEN LoadLegacyConfig(parsed.credentials)
         ELSE [credentials |-> parsed.credentials,
               telemetry_blocklist |->
                   IF file.security = "mapping" THEN YamlTelemetry ELSE <<>>]

----------------------------------------------------------------------------
(* Flows *)

HeaderNames == {"Authorization", "X-GitHub-Token", "x-goog-api-key", "x-api-key"}
QueryNames  == {"key", "exfil"}

NoResponse == [status |-> 0, body |-> <<>>, content_type |-> <<>>]

\* http.Response.make(status, body, {"Content-Type": "text/plain"})
MakeResponse(status, body) ==
    [status |-> status, body |-> body, content_type |-> <<"text/plain">>]

MkFlow(host, auth, xgh, goog, qkey) ==
    [host     |-> host,
     method   |-> "GET",
     path     |-> <<"/v1">>,
     headers  |-> [n \in HeaderNames |->
                      CASE n = "Authorization"  -> auth
                        [] n = "X-GitHub-Token" -> xgh
                        [] n = "x-goog-api-key" -> goog
                        [] OTHER                -> Absent],
     query    |-> [n \in QueryNames |-> IF n = "key" THEN qkey ELSE Absent],
     body     |-> 0,  \* its length in bytes
     response |-> NoResponse]

ReqHosts ==
    {api_openai_com, API_OPENAI_COM, api_github_com, api_openai_com_evil_com,
     sentry_io, googleapis_com}

AuthValues ==
    {Absent,
     <<"Bearer", " ", "DUMMY_OPENAI_KEY">>,
     <<"DUMMY_OPENAI_KEY">>,
     <<"Bearer", " ", " ", "DUMMY_OPENAI_KEY", " ", " ">>,
     <<"Bearer", " ", "DUMMY%5FOPENAI%5FKEY">>,
     <<"Bearer", " ", "sk-xyz">>,
     <<"token", " ", "DUMMY_GITHUB_TOKEN">>}

OpenAIBearer == <<"Bearer", " ", "DUMMY_OPENAI_KEY">>
GitHubDummy  == <<"DUMMY_GITHUB_TOKEN">>
GeminiDummy  == <<"DUMMY_GEMINI_KEY">>

\* what a request carries: <<Authorization, X-GitHub-Token, x-goog-api-key, ?key=>>
RequestShapes ==
    {<<a, Absent, Absent, Absent>> : a \in AuthValues}
    \cup {<<a, GitHubDummy, Absent, Absent>> : a \in {Absent, OpenAIBearer}}
    \cup {<<a, Absent, GeminiDummy, Absent>> : a \in {Absent, OpenAIBearer}}
    \cup {<<a, Absent, Absent, GeminiDummy>> : a \in {Absent, OpenAIBearer}}
    \cup {<<a, Absent, GeminiDummy, GeminiDummy>> : a \in {Absent, OpenAIBearer}}
    \cup {<<Absent, GitHubDummy, Absent, GeminiDummy>>}

telemetry_anthropic_com == <<"telemetry", ".", "anthropic", ".", "com">>
\* "notsentry.io": the label is "not" followed by "sentry"
notsentry_io            == <<"not", "sentry", ".", "io">>
api_anthropic_com       == <<"api", ".", "anthropic", ".", "com">>

AnthropicDummy == <<"DUMMY_ANTHROPIC_KEY">>

\* a request without credentials to host, then given the header x-api-key
WithApiKey(host, value) ==
    [MkFlow(host, Absent, Absent, Absent, Absent) EXCEPT !.headers["x-api-key"] = value]

\* requests of the Anthropic client: to the API, and to its telemetry endpoint
AnthropicFlows ==
    {WithApiKey(api_anthropic_com, AnthropicDummy),
     WithApiKey(telemetry_anthropic_com, AnthropicDummy)}

\* a request without credentials in the headers, with ?exfil=<value>
WithExfil(host, value) ==
    [MkFlow(host, Absent, Absent, Absent, Absent) EXCEPT !.query["exfil"] = value]

\* a dummy sent in a query parameter no credential is configured for
ExfilFlows ==
    {WithExfil(h, v) : h \in {api_openai_com, api_openai_com_evil_com},
                       v \in {<<"DUMMY_OPENAI_KEY">>, GeminiDummy}}

RequestFlows ==
    {MkFlow(h, s[1], s[2], s[3], s[4]) : h \in ReqHosts, s \in RequestShapes}
        \cup AnthropicFlows
        \cup ExfilFlows
        \cup {MkFlow(notsentry_io, Absent, Absent, Absent, Absent)}

----------------------------------------------------------------------------
(* UniversalCredentialInjector: request processing *)

MaxRequests == 2

ZeroStats ==
    [requests_processed |-> 0, credentials_injected |-> 0,
     requests_blocked |-> 0, telemetry_blocked |-> 0]

Bump(st, counter) == [st EXCEPT ![counter] = @ + 1]

\* _is_telemetry_request
IsTelemetryRequest(host) ==
    LET host_lower == Lower(host) IN
    \E i \in 1..Len(telemetry_blocklist) : Contains(host_lower, telemetry_blocklist[i])

\* the host check of the two injection paths against any credential's allowlist
HostAuthorizedAnyCred(cred, host) ==
    \E i \in 1..Len(credentials) : IsHostWhitelisted(credentials[i].allowed_hosts, host)

\* "if not self._is_host_whitelisted(cred, host)" of the two injection paths
HostAuthorized(cred, host) == IsHostWhitelisted(cred.allowed_hosts, host)

\* _get_real_credential
GetRealCredential(cred) == env[cred.env_var]

\* Python truth value of an Optional[str]
Falsy(v) == v = None \/ v = <<>>

\* the new header value without the replacement inside a larger value: the whole
\* value becomes the formatted credential
NewHeaderValueWhole(header_value, dummy_token, formatted_credential) ==
    formatted_credential

\* _inject_credential_in_headers: the new header value
NewHeaderValue(header_value, dummy_token, formatted_credential) ==
    IF header_value = dummy_token
    THEN formatted_credential
    ELSE Replace(header_value, dummy_token, formatted_credential)

\* The state a call of request() works on:
\*   f the flow, st self.stats, lg the log records, fd the credentials found
Work(f, st, lg, fd) == [f |-> f, st |-> st, lg |-> lg, fd |-> fd]

Result(w, ret) == [w |-> w, ret |-> ret]

\* _inject_credential_in_headers: the loop over cred.header_locations from position i
RECURSIVE HeadersFrom(_, _, _)
HeadersFrom(w, cred, i) ==
    IF i > Len(cred.header_locations) THEN Result(w, FALSE)
    ELSE
    LET host            == w.f.host
        header_name     == cred.header_locations[i].name
        format_template == cred.header_locations[i].format
        header_value    == w.f.headers[header_name]
    IN
    IF header_name \notin HeaderNames \/ w.f.headers[header_name] = Absent
    THEN HeadersFrom(w, cred, i + 1)
    ELSE IF ~Contains(header_value, cred.dummy_token)
    THEN HeadersFrom(w, cred, i + 1)
    ELSE
    LET wf == [w EXCEPT !.fd = @ \cup {cred.service_name}] IN
    IF ~HostAuthorized(cred, host)
    THEN Result([wf EXCEPT
                   !.lg = Append(@, <<"SECURITY: Blocked ", cred.display_name,
                                      " credential to unauthorized host: ">> \o host),
                   !.f.response = MakeResponse(403,
                        <<"Forbidden: ">> \o host
                            \o <<" not whitelisted for ", cred.display_name>>),
                   !.st = Bump(@, "requests_blocked")],
                FALSE)
    ELSE
    LET real_credential == GetRealCredential(cred) IN
    IF Falsy(real_credential)
    THEN Result([wf EXCEPT
                   !.lg = Append(@, <<"Cannot inject credential: ", cred.env_var,
                                      " not set in environment. See: ">>),
                   !.f.response = MakeResponse(500,
                        <<"Internal Error: ", cred.display_name, " not configured">>)],
                FALSE)
    ELSE
    LET formatted_credential == Replace(format_template, <<"{token}">>, real_credential)
        new_header_value     ==
            NewHeaderValue(header_value, cred.dummy_token, formatted_credential)
    IN
    Result([wf EXCEPT
              !.f.headers[header_name] = new_header_value,
              !.lg = Append(@, <<cred.display_name, " credential injected for ">> \o host
                                   \o <<" (header: ", header_name, ")">>),
              !.st = Bump(@, "credentials_injected")],
           TRUE)

\* _inject_credential_in_headers
InjectCredentialInHeaders(w, cred) == HeadersFrom(w, cred, 1)

\* "not flow.request.query"
QueryEmpty(f) == \A n \in QueryNames : f.query[n] = Absent

\* _inject_credential_in_query_params: the loop over cred.query_param_names from i
RECURSIVE QueryParamsFrom(_, _, _)
QueryParamsFrom(w, cred, i) ==
    IF i > Len(cred.query_param_names) THEN Result(w, FALSE)
    ELSE
    LET host        == w.f.host
        param_name  == cred.query_param_names[i]
        param_value == w.f.query[param_name]
    IN
    IF param_name \notin QueryNames \/ w.f.query[param_name] = Absent
    THEN QueryParamsFrom(w, cred, i + 1)
    ELSE IF ~Contains(param_value, cred.dummy_token)
    THEN QueryParamsFrom(w, cred, i + 1)
    ELSE
    LET wf == [w EXCEPT !.fd = @ \cup {cred.service_name}] IN
    IF ~HostAuthorized(cred, host)
    THEN Result([wf EXCEPT
                   !.lg = Append(@, <<"SECURITY: Blocked ", cred.display_name,
                                      " in query param to unauthorized host: ">> \o host),
                   !.f.response = MakeResponse(403, <<"Forbidden: Host not whitelisted">>),
                   !.st = Bump(@, "requests_blocked")],
                FALSE)
    ELSE
    LET real_credential == GetRealCredential(cred) IN
    IF Falsy(real_credential)
    THEN Result([wf EXCEPT
                   !.lg = Append(@, <<cred.env_var, " not set in environment">>),
                   !.f.response = MakeResponse(500,
                        <<"Internal Error: ", cred.display_name, " not configured">>)],
                FALSE)
    ELSE
    Result([wf EXCEPT
              !.f.query[param_name] = Replace(param_value, cred.dummy_token, real_credential),
              !.lg = Append(@, <<cred.display_name,
                                 " credential injected in query param for ">> \o host),
              !.st = Bump(@, "credentials_injected")],
           TRUE)

\* _inject_credential_in_query_params
InjectCredentialInQueryParams(w, cred) ==
    IF QueryEmpty(w.f) \/ cred.query_param_names = <<>>
    THEN Result(w, FALSE)
    ELSE QueryParamsFrom(w, cred, 1)

\* request(): "for cred in self.credentials.values()" over the query parameters, from j
RECURSIVE QueryPass(_, _)
QueryPass(w, j) ==
    IF j > Len(credentials) THEN w
    ELSE LET r == InjectCredentialInQueryParams(w, credentials[j]) IN
         IF r.ret THEN r.w ELSE QueryPass(r.w, j + 1)

\* request(): "for cred in self.credentials.values()" over the headers, from j
RECURSIVE HeaderPass(_, _)
\* the header loop not returning after an injection: the query loop follows
HeaderPassThenQuery(w, j) ==
    IF j > Len(credentials) THEN QueryPass(w, 1)
    ELSE LET r == InjectCredentialInHeaders(w, credentials[j]) IN
         IF r.ret THEN QueryPass(r.w, 1) ELSE HeaderPass(r.w, j + 1)

HeaderPass(w, j) ==
    IF j > Len(credentials) THEN QueryPass(w, 1)
    ELSE LET r == InjectCredentialInHeaders(w, credentials[j]) IN
         IF r.ret THEN r.w ELSE HeaderPass(r.w, j + 1)

\* request() with the telemetry branch not returning: the credential loops follow
RequestResultNoTelemetryReturn(f, st) ==
    LET w0 == Work(f, Bump(st, "requests_processed"), <<>>, {}) IN
    IF IsTelemetryRequest(f.host)
    THEN HeaderPass([w0 EXCEPT
            !.lg = Append(@, <<"Blocked telemetry request to: ">> \o f.host),
            !.f.response = MakeResponse(418, <<"Telemetry blocked by SafeClaude proxy">>),
            !.st = Bump(@, "telemetry_blocked")], 1)
    ELSE HeaderPass(w0, 1)

\* UniversalCredentialInjector.request(flow), started with self.stats = st
RequestResult(f, st) ==
    LET w0 == Work(f, Bump(st, "requests_processed"), <<>>, {}) IN
    IF IsTelemetryRequest(f.host)
    THEN [w0 EXCEPT
            !.lg = Append(@, <<"Blocked telemetry request to: ">> \o f.host),
            !.f.response = MakeResponse(418, <<"Telemetry blocked by SafeClaude proxy">>),
            !.st = Bump(@, "telemetry_blocked")]
    ELSE HeaderPass(w0, 1)

\* __init__: the statistics at zero, the configuration loaded
Init ==
    /\ \E c \in Configs :
          /\ credentials = c.credentials
          /\ telemetry_blocklist = c.telemetry_blocklist
    /\ env \in Envs
    /\ env_at_load = env
    /\ config_file = <<>>
    /\ stats = ZeroStats
    /\ stats_in = ZeroStats
    /\ found = {}
    /\ passthroughs = 0
    /\ threads = <<>>
    /\ IdleFlow
    /\ strategy = <<>>
    /\ config = <<>>
    /\ op = "none"
    /\ gate_host = <<>>
    /\ gate_allowed = <<>>
    /\ gate_result = FALSE

\* mitmproxy calls request(flow)
Request ==
    /\ stats.requests_processed < MaxRequests
    /\ \E f \in RequestFlows :
          \E w \in {RequestResult(f, stats)} :
          /\ flow_in' = f
          /\ flow' = w.f
          /\ stats' = w.st
          /\ logs' = w.lg
          /\ found' = w.fd
          /\ passthroughs' = IF w.f = f THEN passthroughs + 1 ELSE passthroughs
    /\ stats_in' = stats
    /\ op' = "request"
    /\ outcome' = "returned"
    /\ UNCHANGED <<credentials, telemetry_blocklist, env, env_at_load, config_file, strategy, config,
                   gateVars, threads>>

\* values the environment can take after startup: unset, or a value other than
\* the one read at startup
ChangedValues == {None, <<"sk-rotated">>}

\* the process environment changes after startup: os.environ[var] is set or deleted.
\* The injector's fields stay as they are; the record of the last call is cleared,
\* the change being no call of the injector.
ChangeEnv ==
    /\ \E value \in ChangedValues :
          env' = [env EXCEPT !["REAL_OPENAI_API_KEY"] = value]
    /\ env' # env
    /\ op' = "environ"
    /\ flow' = NoFlow
    /\ flow_in' = NoFlow
    /\ logs' = <<>>
    /\ outcome' = "none"
    /\ found' = {}
    /\ stats_in' = stats
    /\ UNCHANGED <<credentials, telemetry_blocklist, env_at_load, config_file, stats,
                   passthroughs, threads, strategy, config, gateVars>>

Next == Request \/ ChangeEnv

Spec == Init /\ [][Next]_vars

----------------------------------------------------------------------------
(* __init__ loading the configuration *)

\* __init__ up to the call of _load_config
LoadInit ==
    /\ credentials = <<>>
    /\ telemetry_blocklist = <<>>
    /\ env \in Envs
    /\ env_at_load = env
    /\ config_file \in ConfigFiles
    /\ stats = ZeroStats
    /\ stats_in = ZeroStats
    /\ found = {}
    /\ passthroughs = 0
    /\ threads = <<>>
    /\ IdleFlow
    /\ strategy = <<>>
    /\ config = <<>>
    /\ op = "none"
    /\ gate_host = <<>>
    /\ gate_allowed = <<>>
    /\ gate_result = FALSE

\* __init__ calls _load_config
LoadConfig ==
    /\ op = "none"
    /\ op' = "_load_config"
    /\ \E r \in {LoadConfigResult(credentials, telemetry_blocklist, config_file)} :
          /\ credentials' = r.credentials
          /\ telemetry_blocklist' = r.telemetry_blocklist
    /\ UNCHANGED <<env, env_at_load, config_file, stats, stats_in, found, passthroughs, threads,
                   flowVars, strategy, config, gateVars>>

LoadSpec == LoadInit /\ [][LoadConfig]_vars

----------------------------------------------------------------------------
(* request() under @concurrent: every call runs on a thread of its own.  The    *)
(* flow is the thread's; self.stats is shared, and each                         *)
(*     self.stats[counter] += 1                                                 *)
(* is a read of the entry followed by a write of the value read plus one.       *)

MaxThreads == 2

Threads == 1..MaxThreads

ConcFlows ==
    {MkFlow(api_openai_com, OpenAIBearer, Absent, Absent, Absent),
     MkFlow(api_openai_com_evil_com, OpenAIBearer, Absent, Absent, Absent),
     MkFlow(sentry_io, Absent, Absent, Absent, Absent),
     MkFlow(api_github_com, Absent, Absent, Absent, Absent),
     MkFlow(api_openai_com_evil_com, Absent, Absent, GeminiDummy, GeminiDummy)}

\* the sequence of n copies of counter
Times(counter, n) == [i \in 1..n |-> counter]

\* the increments request(f) makes after that of requests_processed, in order:
\* the telemetry return, or the blocks of the two loops and then the injection
\* that ends them
Increments(f) ==
    LET st == RequestResult(f, ZeroStats).st IN
    Times("telemetry_blocked", st.telemetry_blocked)
        \o Times("requests_blocked", st.requests_blocked)
        \o Times("credentials_injected", st.credentials_injected)

IdleThread == [pc |-> "idle", f |-> NoFlow, counter |-> "none", value |-> 0, todo |-> <<>>]

ConcInit ==
    /\ \E c \in Configs :
          /\ credentials = c.credentials
          /\ telemetry_blocklist = c.telemetry_blocklist
    /\ env = EnvAllSet
    /\ env_at_load = env
    /\ config_file = <<>>
    /\ stats = ZeroStats
    /\ stats_in = ZeroStats
    /\ found = {}
    /\ passthroughs = 0
    /\ threads = [t \in Threads |-> IdleThread]
    /\ IdleFlow
    /\ strategy = <<>>
    /\ config = <<>>
    /\ op = "none"
    /\ gate_host = <<>>
    /\ gate_allowed = <<>>
    /\ gate_result = FALSE

concFrame ==
    <<credentials, telemetry_blocklist, env, env_at_load, config_file, stats_in, found,
      passthroughs, flowVars, strategy, config, op, gateVars>>

\* mitmproxy hands a flow to request() on thread t
ThreadStart(t) ==
    /\ threads[t].pc = "idle"
    /\ \E f \in ConcFlows :
          threads' = [threads EXCEPT ![t] =
              [pc |-> "read", f |-> f, counter |-> "requests_processed", value |-> 0,
               todo |-> Increments(f)]]
    /\ UNCHANGED <<stats, concFrame>>

\* thread t reads self.stats[counter]
ThreadRead(t) ==
    /\ threads[t].pc = "read"
    /\ threads' = [threads EXCEPT ![t].pc = "write", ![t].value = stats[threads[t].counter]]
    /\ UNCHANGED <<stats, concFrame>>

\* thread t writes the value it read plus one, and goes on to its next increment
\* or returns with the flow as request() leaves it
ThreadWrite(t) ==
    /\ threads[t].pc = "write"
    /\ stats' = [stats EXCEPT ![threads[t].counter] = threads[t].value + 1]
    /\ threads' = [threads EXCEPT ![t] =
          IF threads[t].todo = <<>>
          THEN [@ EXCEPT !.pc = "done", !.f = RequestResult(@, ZeroStats).f]
          ELSE [@ EXCEPT !.pc = "read", !.counter = Head(threads[t].todo),
                         !.todo = Tail(threads[t].todo)]]
    /\ UNCHANGED concFrame

ConcNext == \E t \in Threads : ThreadStart(t) \/ ThreadRead(t) \/ ThreadWrite(t)

ConcSpec == ConcInit /\ [][ConcNext]_vars

----------------------------------------------------------------------------
(* The gates called on their own *)

GateInit ==
    /\ IdleInjector
    /\ IdleFlow
    /\ strategy = <<>>
    /\ config = <<>>
    /\ op = "none"
    /\ gate_host \in GateHosts
    /\ gate_allowed \in GateAllowlists
    /\ gate_result = FALSE

CallIsHostWhitelisted ==
    /\ op = "none"
    /\ op' = "_is_host_whitelisted"
    /\ gate_result' = IsHostWhitelisted(gate_allowed, gate_host)
    /\ UNCHANGED <<injectorVars, flowVars, strategy, config, gate_host, gate_allowed>>

CallValidateHost ==
    /\ op = "none"
    /\ op' = "validate_host"
    /\ gate_result' = ValidateHost(gate_allowed, gate_host)
    /\ UNCHANGED <<injectorVars, flowVars, strategy, config, gate_host, gate_allowed>>

GateNext == CallIsHostWhitelisted \/ CallValidateHost

GateSpec == GateInit /\ [][GateNext]_vars

----------------------------------------------------------------------------
(* _is_telemetry_request called on its own *)

\* hosts around the blocklist entries: the entries themselves, in upper case, their
\* subdomains, an IP address, and names that only contain an entry ("notsentry.io"
\* is the label "not" + "sentry")
TelemetryProbes ==
    {sentry_io, <<"SENTRY", ".", "IO">>, <<"app", ".", "sentry", ".", "io">>,
     telemetry_anthropic_com, <<"cdn", ".", "segment", ".", "com">>,
     <<"192", ".", "168", ".", "1", ".", "100">>,
     notsentry_io,
     <<"sentry", ".", "io", ".", "example", ".", "com">>,
     <<"sentry", ".", "io", "t", ".", "com">>}

TelemetryInit ==
    /\ credentials = <<>>
    /\ telemetry_blocklist \in {LegacyTelemetry, YamlTelemetry}
    /\ env = <<>>
    /\ env_at_load = <<>>
    /\ config_file = <<>>
    /\ stats = <<>>
    /\ stats_in = <<>>
    /\ found = {}
    /\ passthroughs = 0
    /\ threads = <<>>
    /\ IdleFlow
    /\ strategy = <<>>
    /\ config = <<>>
    /\ op = "none"
    /\ gate_host \in GateHosts \cup TelemetryProbes
    /\ gate_allowed = <<>>
    /\ gate_result = FALSE

CallIsTelemetryRequest ==
    /\ op = "none"
    /\ op' = "_is_telemetry_request"
    /\ gate_result' = IsTelemetryRequest(gate_host)
    /\ UNCHANGED <<injectorVars, flowVars, strategy, config, gate_host, gate_allowed>>

TelemetrySpec == TelemetryInit /\ [][CallIsTelemetryRequest]_vars

----------------------------------------------------------------------------
(* The gate as section 4.3 of the specification states it *)

\* the domain a pattern names: the pattern without a leading "*."
PatternDomain(p) == IF StartsWith(p, Star) THEN DropFirst(p, 2) ELSE p

\* host is the domain d or a subdomain of it
DomainOrSubdomain(h, d) == h = d \/ EndsWith(h, Dot \o d)

\* rule 2, for a pattern "*." + d
WildcardRule(h, p) == StartsWith(p, Star) /\ DomainOrSubdomain(h, DropFirst(p, 2))

\* rules 1 to 3 over an allowlist, both sides case-folded
GateRules(allowed_hosts, host) ==
    \E i \in 1..Len(allowed_hosts) :
        LET p == Lower(allowed_hosts[i])
            h == Lower(host)
        IN  h = p \/ WildcardRule(h, p) \/ EndsWith(h, Dot \o p)

\* C4: validate_host allows a host against a single wildcard pattern "*.d" iff,
\* case-folded, host = d or host ends with "." + d.
C4_WildcardIff ==
    (op = "validate_host" /\ Len(gate_allowed) = 1 /\ StartsWith(gate_allowed[1], Star))
        => (gate_result <=> WildcardRule(Lower(gate_host), Lower(gate_allowed[1])))

\* C5: validate_host allows a host against a single bare-domain pattern p (no
\* leading "*.") iff, case-folded, host = p or host ends with "." + p.
C5_BareDomainIff ==
    (op = "validate_host" /\ Len(gate_allowed) = 1 /\ ~StartsWith(gate_allowed[1], Star))
        => (gate_result <=> DomainOrSubdomain(Lower(gate_host), Lower(gate_allowed[1])))

\* C6: _is_host_whitelisted returns true iff some pattern of the allowlist admits
\* the host by exact match, by the wildcard rule or by the subdomain rule, and
\* false for every other host.
C6_WhitelistedIffRules ==
    op = "_is_host_whitelisted" => (gate_result <=> GateRules(gate_allowed, gate_host))

\* C6 witness: a subdomain of a bare allowlisted domain was admitted.
C6_Witness ==
    /\ op = "_is_host_whitelisted"
    /\ gate_allowed = <<github_com, openai_com>>
    /\ gate_host = api_openai_com
    /\ gate_result

\* C7: neither gate allows a host that neither equals an allowlisted domain nor
\* ends with "." + that domain; an empty allowlist denies every host.
C7_NoHostOutsideAllowlist ==
    (op \in {"_is_host_whitelisted", "validate_host"} /\ gate_result)
        => \E i \in 1..Len(gate_allowed) :
               DomainOrSubdomain(Lower(gate_host), PatternDomain(Lower(gate_allowed[i])))

----------------------------------------------------------------------------
(* The strategies: BearerStrategy and its variants, GeminiStrategy, AWSSigV4Strategy *)

\* a strategy as its __init__ leaves it; dummy holds the tokens dummy_pattern matches
Strategy(kind, name, secret, dummy, hosts) ==
    [kind |-> kind, name |-> name, secret |-> secret, dummy |-> dummy,
     allowed_hosts |-> hosts, secret_access_key |-> <<"aws-secret-real">>,
     session_token |-> None, default_region |-> "us-east-1"]

\* OpenAIStrategy.__init__ defaults
OpenAIStrategy ==
    Strategy("bearer", "openai", <<"sk-xyz">>, {"DUMMY_OPENAI_KEY"},
             <<api_openai_com, Star \o openai_com>>)

\* GitHubStrategy.__init__ defaults
GitHubStrategy ==
    Strategy("bearer", "github", <<"ghp_real">>, {"DUMMY_GITHUB_TOKEN"},
             <<api_github_com, Star \o github_com, github_com>>)

\* BearerStrategy with the default dummy_pattern and a bare-domain allowlist
PlainBearerStrategy ==
    Strategy("bearer", "bearer", <<"tok-real">>,
             {"DUMMY_OPENAI_KEY", "DUMMY_GITHUB_TOKEN", "DUMMY_GEMINI_KEY"},
             <<openai_com>>)

\* GeminiStrategy.__init__ defaults
GeminiStrategy ==
    Strategy("gemini", "gemini", <<"AIzaREAL">>, {"DUMMY_GEMINI_KEY"},
             <<googleapis_com, Star \o <<"googleapis", ".", "com">> >>)

\* GeminiStrategy with a key that URL-encoding changes
GeminiSlashStrategy ==
    Strategy("gemini", "gemini-slash", <<"AIza", "/", "REAL">>, {"DUMMY_GEMINI_KEY"},
             <<googleapis_com>>)

AwsDummyToks == {"AKIA00000000DUMMYKEY", "AKIAIOSFODNN7EXAMPLEDUMMY"}

\* AWSSigV4Strategy.__init__ defaults
AwsStrategy ==
    Strategy("aws_sigv4", "aws", <<"AKIAREAL">>, AwsDummyToks,
             <<Star \o amazonaws_com, Star \o <<"amazonaws", ".", "com", ".", "cn">> >>)

\* AWSSigV4Strategy with the endpoints listed one by one and a session token
AwsExactStrategy ==
    [Strategy("aws_sigv4", "aws-exact", <<"AKIAREAL">>, AwsDummyToks,
              <<s3_west_amazonaws_com, s3_amazonaws_com, ec2_amazonaws_com>>)
        EXCEPT !.session_token = <<"session-real">>]

Strategies ==
    {OpenAIStrategy, GitHubStrategy, PlainBearerStrategy, GeminiStrategy,
     GeminiSlashStrategy, AwsStrategy, AwsExactStrategy}

\* the secrets a strategy holds
SecretsOf(s) ==
    IF s.kind = "aws_sigv4"
    THEN {s.secret, s.secret_access_key} \cup
         (IF s.session_token = None THEN {} ELSE {s.session_token})
    ELSE {s.secret}

SHeaderNames ==
    {"Authorization", "x-goog-api-key", "X-Amz-Date", "X-Amz-Security-Token",
     "X-Amz-Signature", "X-Amz-Content-Sha256"}

\* query parameters in the order of the URL
SQueryOrder == <<"key", "X-Amz-Credential">>
SQueryNames == {"key", "X-Amz-Credential"}

\* len(flow.request.content) above which an S3 upload goes unsigned: 1024 * 1024
UnsignedPayloadThreshold == 1048576

AwsDummyAuth ==
    <<"AWS4-HMAC-SHA256", " ", "Credential=", "AKIA00000000DUMMYKEY", "/",
      "20240101", "/", "us-west-2", "/", "s3", "/", "aws4_request">>

AwsDummyCredential ==
    <<"AKIAIOSFODNN7EXAMPLEDUMMY", "/", "20240101", "/", "eu-central-1", "/", "ec2", "/",
      "aws4_request">>

MkSFlow(host, method, auth, goog, xdate, qkey, xcred, body) ==
    [host     |-> host,
     method   |-> method,
     path     |-> <<"/bucket/key">>,
     headers  |-> [n \in SHeaderNames |->
                      CASE n = "Authorization"  -> auth
                        [] n = "x-goog-api-key" -> goog
                        [] n = "X-Amz-Date"     -> xdate
                        [] OTHER                -> Absent],
     query    |-> [n \in SQueryNames |-> IF n = "key" THEN qkey ELSE xcred],
     body     |-> body,
     response |-> NoResponse]

bucket_amazonaws_com == <<"bucket", ".", "s3", ".", "us-west-2", ".", "amazonaws", ".", "com">>

StrategyHosts ==
    {api_openai_com, api_openai_com_evil_com, api_github_com, googleapis_com,
     s3_west_amazonaws_com, s3_amazonaws_com, bucket_amazonaws_com}

\* the dummy Gemini key inside a larger value
GeminiDummyInside == <<"key=", "DUMMY_GEMINI_KEY", ";v1">>

\* requests to the Gemini API carrying the dummy key alone or inside a larger value
GeminiFlows ==
    {MkSFlow(googleapis_com, "GET", Absent, g, Absent, q, Absent, 0) :
        g \in {Absent, GeminiDummy, GeminiDummyInside},
        q \in {Absent, GeminiDummy, GeminiDummyInside}}

\* signed uploads and downloads around the size where the payload goes unsigned
AwsUploadFlows ==
    {MkSFlow(h, m, AwsDummyAuth, Absent, <<"20240101T000000Z">>, Absent, Absent, b) :
        h \in {s3_west_amazonaws_com, ec2_amazonaws_com},
        m \in {"GET", "PUT", "POST"},
        b \in {0, UnsignedPayloadThreshold - 1, UnsignedPayloadThreshold,
               UnsignedPayloadThreshold + 1}}

StrategyFlows ==
    GeminiFlows \cup AwsUploadFlows \cup
    {MkSFlow(h, m, a, g, d, q, c, b) :
        h \in StrategyHosts,
        m \in {"GET", "PUT"},
        a \in {Absent, OpenAIBearer, <<"Bearer", " ", "sk-xyz">>, AwsDummyAuth},
        g \in {Absent, GeminiDummy},
        d \in {Absent, <<"20240101T000000Z">>},
        q \in {Absent, GeminiDummy},
        c \in {Absent, AwsDummyCredential},
        b \in {0, UnsignedPayloadThreshold + 1}}

\* urllib quoting of one token of a query value
UrlEncodeTok(t) ==
    CASE t = "/" -> "%2F"
      [] t = " " -> "+"
      [] OTHER   -> t

UrlEncode(v) == [i \in 1..Len(v) |-> UrlEncodeTok(v[i])]

\* the query string from position i of SQueryOrder; sep is the separator to write first
RECURSIVE QueryStringFrom(_, _, _)
QueryStringFrom(f, i, sep) ==
    IF i > Len(SQueryOrder) THEN <<>>
    ELSE LET n == SQueryOrder[i] IN
         IF f.query[n] = Absent THEN QueryStringFrom(f, i + 1, sep)
         ELSE <<sep, n, "=">> \o UrlEncode(f.query[n]) \o QueryStringFrom(f, i + 1, "&")

\* flow.request.path: the request target, query string included
RequestPath(f) == f.path \o QueryStringFrom(f, 1, "?")

\* re.search(dummy_pattern, value)
SearchDummy(dummy, value) == \E i \in 1..Len(value) : value[i] \in dummy

\* headers.get(name, "")
HeaderGet(f, name) == IF f.headers[name] = Absent THEN <<>> ELSE f.headers[name]

\* log_injection: the record it emits
LogInjection(s, f, details) ==
    <<"Strategy '", s.name, "' injected credentials for ", f.method, " ">>
        \o f.host \o RequestPath(f) \o <<" ", details>>

\* validate_host: the warning it logs before returning False
HostValidationWarning(s, f) ==
    <<"Host validation failed for ">> \o Lower(f.host) \o <<". Not in allowed list">>

\* what an inject() call leaves: the flow, the log records, how it ended
Done(f, lg, how) == [f |-> f, lg |-> lg, how |-> how]

Refused(s, f) == Done(f, <<HostValidationWarning(s, f)>>, "raised")

\* what a detect() call leaves: the flow, the debug record of a hit, the value returned
Detected(f, hit, where) ==
    Done(f, IF hit THEN << <<"Detected dummy ", where, " for ">> \o f.host >> ELSE <<>>,
         IF hit THEN "returned True" ELSE "returned False")

\* BearerStrategy.detect with the header read by an indexing that creates it
BearerDetectTouching(s, f) ==
    LET auth_header == HeaderGet(f, "Authorization")
        hit == Contains(auth_header, <<"Bearer">>) /\ SearchDummy(s.dummy, auth_header)
    IN  Detected([f EXCEPT !.headers["Authorization"] = auth_header], hit, "Bearer token")

\* BearerStrategy.detect
BearerDetectResult(s, f) ==
    LET auth_header == HeaderGet(f, "Authorization") IN
    IF ~Contains(auth_header, <<"Bearer">>) THEN Detected(f, FALSE, "Bearer token")
    ELSE Detected(f, SearchDummy(s.dummy, auth_header), "Bearer token")

\* GeminiStrategy.detect
GeminiDetectResult(s, f) ==
    LET api_key_header == HeaderGet(f, "x-goog-api-key") IN
    IF api_key_header # <<>> /\ SearchDummy(s.dummy, api_key_header)
    THEN Detected(f, TRUE, "Gemini API key in header")
    ELSE Detected(f, f.query["key"] # Absent /\ SearchDummy(s.dummy, f.query["key"]),
                  "Gemini API key in query param")

\* BearerStrategy.inject without the host check
BearerInjectUnchecked(s, f) ==
    LET g == [f EXCEPT !.headers["Authorization"] = <<"Bearer", " ">> \o s.secret] IN
    Done(g, <<LogInjection(s, g, "(Bearer token)")>>, "returned")

\* BearerStrategy.inject
BearerInjectResult(s, f) ==
    IF ~ValidateHost(s.allowed_hosts, f.host) THEN Refused(s, f)
    ELSE
    LET g == [f EXCEPT !.headers["Authorization"] = <<"Bearer", " ">> \o s.secret] IN
    Done(g, <<LogInjection(s, g, "(Bearer token)")>>, "returned")

\* GeminiStrategy.inject
GeminiInjectResult(s, f) ==
    IF ~ValidateHost(s.allowed_hosts, f.host) THEN Refused(s, f)
    ELSE
    LET api_key_header == HeaderGet(f, "x-goog-api-key") IN
    IF api_key_header # <<>> /\ SearchDummy(s.dummy, api_key_header)
    THEN LET g == [f EXCEPT !.headers["x-goog-api-key"] = s.secret] IN
         Done(g, <<LogInjection(s, g, "(Gemini API key in header)")>>, "returned")
    ELSE IF f.query["key"] # Absent /\ SearchDummy(s.dummy, f.query["key"])
    THEN LET g == [f EXCEPT !.query["key"] = s.secret] IN
         Done(g, <<LogInjection(s, g, "(Gemini API key in query param)")>>, "returned")
    ELSE Done(f, << <<"Gemini strategy detected but couldn't find dummy key to replace for ">>
                      \o f.host >>, "returned")

AmazonSuffix   == <<".", "amazonaws", ".", "com">>
AmazonCnSuffix == <<".", "amazonaws", ".", "com", ".", "cn">>

\* [a-z]{2}-[a-z]+-\d+
IsRegionTok(t) == t \in {"us-west-2", "us-east-1", "eu-central-1"}

\* [a-z0-9-]+
IsLabelTok(t) == t \notin {".", "*", "/", " ", "U+0430"}

\* credential.split("/")
RECURSIVE SplitSlash(_)
SplitSlash(v) ==
    IF \A i \in 1..Len(v) : v[i] # "/" THEN <<v>>
    ELSE LET k == CHOOSE i \in 1..Len(v) : v[i] = "/" /\ \A j \in 1..(i - 1) : v[j] # "/" IN
         <<SubSeq(v, 1, k - 1)>> \o SplitSlash(DropFirst(v, k))

\* parse_qs(parsed.query).get("X-Amz-Credential", [""])[0]
AmzCredential(f) ==
    IF f.query["X-Amz-Credential"] = Absent THEN <<>> ELSE f.query["X-Amz-Credential"]

\* AWSSigV4Strategy.detect
AwsDetect(s, f) ==
    LET host == Lower(f.host) IN
    /\ EndsWith(host, AmazonSuffix) \/ EndsWith(host, AmazonCnSuffix)
    /\ \/ SearchDummy(AwsDummyToks, HeaderGet(f, "Authorization"))
       \/ (f.query["X-Amz-Credential"] # Absent /\ SearchDummy(AwsDummyToks, AmzCredential(f)))

\* _extract_region
ExtractRegion(s, f) ==
    LET host == Lower(f.host)
        hits == {i \in 1..Len(host) :
                    /\ host[i] = "."
                    /\ i + 5 <= Len(host)
                    /\ IsRegionTok(host[i + 1])
                    /\ SubSeq(host, i + 2, i + 5) = AmazonSuffix}
        parts == SplitSlash(AmzCredential(f))
    IN
    IF hits # {} THEN host[(CHOOSE i \in hits : \A j \in hits : i <= j) + 1]
    ELSE IF f.query["X-Amz-Credential"] # Absent /\ Len(parts) >= 3 /\ Len(parts[3]) = 1
         THEN parts[3][1]
    ELSE s.default_region

\* _extract_service
ExtractService(s, f) ==
    LET host == Lower(f.host)
        parts == SplitSlash(AmzCredential(f))
    IN
    IF /\ Len(host) >= 1
       /\ IsLabelTok(host[1])
       /\ \/ StartsWith(DropFirst(host, 1), AmazonSuffix)
          \/ /\ Len(host) >= 3
             /\ host[2] = "."
             /\ IsRegionTok(host[3])
             /\ StartsWith(DropFirst(host, 3), AmazonSuffix)
    THEN host[1]
    ELSE IF f.query["X-Amz-Credential"] # Absent /\ Len(parts) >= 4 /\ Len(parts[4]) = 1
         THEN parts[4][1]
    ELSE "s3"

SanitizedHeaders == {"Authorization", "X-Amz-Date", "X-Amz-Security-Token", "X-Amz-Signature"}

\* _sanitize_aws_headers
SanitizeAwsHeaders(f) ==
    [f EXCEPT !.headers = [n \in SHeaderNames |-> IF n \in SanitizedHeaders THEN Absent ELSE @[n]]]

\* _set_unsigned_payload with the threshold included
SetUnsignedPayloadAtThreshold(f) ==
    IF f.body >= UnsignedPayloadThreshold
    THEN [f EXCEPT !.headers["X-Amz-Content-Sha256"] = <<"UNSIGNED-PAYLOAD">>]
    ELSE f

\* _set_unsigned_payload
SetUnsignedPayload(f) ==
    IF f.body > UnsignedPayloadThreshold
    THEN [f EXCEPT !.headers["X-Amz-Content-Sha256"] = <<"UNSIGNED-PAYLOAD">>]
    ELSE f

\* the Authorization header SigV4Auth(credentials, service, region).add_auth computes
SignedAuthorization(s, service, region) ==
    <<"AWS4-HMAC-SHA256", " ", "Credential=">> \o s.secret
        \o <<"/", "today", "/", region, "/", service, "/", "aws4_request", ", Signature=",
             "signature">>

\* add_auth and the copy of the signed headers back to the flow
SignAndCopyBack(s, f, service, region) ==
    [f EXCEPT !.headers =
        [n \in SHeaderNames |->
            CASE n = "Authorization" -> SignedAuthorization(s, service, region)
              [] n = "X-Amz-Date" -> <<"now">>
              [] n = "X-Amz-Security-Token" /\ s.session_token # None -> s.session_token
              [] OTHER -> @[n]]]

\* AWSSigV4Strategy.inject
AwsInjectResult(s, f) ==
    IF ~ValidateHost(s.allowed_hosts, f.host) THEN Refused(s, f)
    ELSE
    LET region  == ExtractRegion(s, f)
        service == ExtractService(s, f)
        f1 == SanitizeAwsHeaders(f)
        f2 == IF service = "s3" /\ f.method \in {"PUT", "POST"} THEN SetUnsignedPayload(f1) ELSE f1
        f3 == SignAndCopyBack(s, f2, service, region)
    IN
    Done(f3,
         << <<"Detected AWS service=", service, ", region=", region>>,
            LogInjection(s, f3, "(service, region)") >>,
         "returned")

StrategyInit ==
    /\ IdleInjector
    /\ strategy \in Strategies
    /\ config = <<>>
    /\ flow \in StrategyFlows
    /\ flow_in = flow
    /\ logs = <<>>
    /\ outcome = "none"
    /\ op = "none"
    /\ gate_host = <<>>
    /\ gate_allowed = <<>>
    /\ gate_result = FALSE

\* the effect of one strategy call on the variables
StrategyCall(name, r) ==
    /\ op' = name
    /\ flow' = r.f
    /\ logs' = r.lg
    /\ outcome' = r.how
    /\ UNCHANGED <<injectorVars, flow_in, strategy, config, gateVars>>

BearerInject ==
    /\ op = "none"
    /\ strategy.kind = "bearer"
    /\ \E r \in {BearerInjectResult(strategy, flow)} : StrategyCall("inject", r)

GeminiInject ==
    /\ op = "none"
    /\ strategy.kind = "gemini"
    /\ \E r \in {GeminiInjectResult(strategy, flow)} : StrategyCall("inject", r)

AwsInject ==
    /\ op = "none"
    /\ strategy.kind = "aws_sigv4"
    /\ \E r \in {AwsInjectResult(strategy, flow)} : StrategyCall("inject", r)

BearerDetect ==
    /\ op = "none"
    /\ strategy.kind = "bearer"
    /\ \E r \in {BearerDetectResult(strategy, flow)} : StrategyCall("detect", r)

GeminiDetect ==
    /\ op = "none"
    /\ strategy.kind = "gemini"
    /\ \E r \in {GeminiDetectResult(strategy, flow)} : StrategyCall("detect", r)

AwsDetectCall ==
    /\ op = "none"
    /\ strategy.kind = "aws_sigv4"
    /\ \E r \in {Detected(flow, AwsDetect(strategy, flow), "AWS credentials")} :
          StrategyCall("detect", r)

StrategyNext ==
    \/ BearerInject \/ GeminiInject \/ AwsInject
    \/ BearerDetect \/ GeminiDetect \/ AwsDetectCall

StrategySpec == StrategyInit /\ [][StrategyNext]_vars

----------------------------------------------------------------------------
(* The dispatcher and the strategies side by side: a behaviour is one of the   *)
(* injector (credentials configured) or one of a strategy object               *)

ProxyInit == Init \/ StrategyInit

ProxyNext ==
    \/ credentials # <<>> /\ Next
    \/ credentials = <<>> /\ StrategyNext

ProxySpec == ProxyInit /\ [][ProxyNext]_vars

----------------------------------------------------------------------------
(* The strategy constructors *)

\* a constructor call ends with the exception it raised or with the object it built
Raised(error) == [raised |-> TRUE, error |-> error]
Built(object) == [raised |-> FALSE, object |-> object]

\* value.isupper() and "_" in value: the value names an environment variable
IsEnvReference(value) == Len(value) = 1 /\ value[1] \in EnvVars

\* BearerStrategy._load_token and GeminiStrategy._load_api_key
LoadToken(cfg, environ) ==
    IF cfg.token = Absent \/ cfg.token = <<>>
    THEN Raised("ValueError")
    ELSE IF IsEnvReference(cfg.token)
         THEN IF Falsy(environ[cfg.token[1]])
              THEN Raised("ValueError")
              ELSE Built(environ[cfg.token[1]])
         ELSE Built(cfg.token)

\* AWSSigV4Strategy._load_credential with required=True
LoadCredential(cfg, environ) ==
    IF cfg.token = Absent
    THEN Raised("ValueError")
    ELSE IF IsEnvReference(cfg.token)
         THEN IF Falsy(environ[cfg.token[1]])
              THEN Raised("ValueError")
              ELSE Built(environ[cfg.token[1]])
         ELSE Built(cfg.token)

\* config.get("allowed_hosts", default)
ConfigGet(cfg, default) ==
    IF cfg.allowed_hosts = Absent THEN default ELSE cfg.allowed_hosts

\* BearerStrategy.__init__
BearerInit(name, cfg, dummy, environ) ==
    LET token == LoadToken(cfg, environ)
        allowed_hosts == ConfigGet(cfg, <<>>)
    IN  IF token.raised THEN token
        ELSE IF allowed_hosts = <<>> THEN Raised("ValueError")
        ELSE Built(Strategy("bearer", name, token.object, dummy, allowed_hosts))

\* StripeStrategy, GitHubStrategy, OpenAIStrategy: "allowed_hosts" not in config
WithDefaultHosts(cfg, default) ==
    IF cfg.allowed_hosts = Absent THEN [cfg EXCEPT !.allowed_hosts = default] ELSE cfg

api_stripe_com == <<"api", ".", "stripe", ".", "com">>
stripe_com     == <<".", "stripe", ".", "com">>

\* the four classes of the Bearer family, called with a config without dummy_pattern
BearerFamilyInit(class, cfg, environ) ==
    CASE class = "BearerStrategy" ->
            BearerInit("bearer", cfg,
                       {"DUMMY_OPENAI_KEY", "DUMMY_GITHUB_TOKEN", "DUMMY_GEMINI_KEY"}, environ)
      [] class = "StripeStrategy" ->
            BearerInit("stripe", WithDefaultHosts(cfg, <<api_stripe_com, Star \o stripe_com>>),
                       {"sk_test_00000000000000000000000000"}, environ)
      [] class = "GitHubStrategy" ->
            BearerInit("github",
                       WithDefaultHosts(cfg, <<api_github_com, Star \o github_com, github_com>>),
                       {"DUMMY_GITHUB_TOKEN"}, environ)
      [] class = "OpenAIStrategy" ->
            BearerInit("openai", WithDefaultHosts(cfg, <<api_openai_com, Star \o openai_com>>),
                       {"DUMMY_OPENAI_KEY"}, environ)

\* GeminiStrategy.__init__
GeminiInit(cfg, environ) ==
    LET api_key == LoadToken(cfg, environ)
    IN  IF api_key.raised THEN api_key
        ELSE Built(Strategy("gemini", "gemini", api_key.object, {"DUMMY_GEMINI_KEY"},
                            ConfigGet(cfg, <<googleapis_com,
                                             Star \o <<"googleapis", ".", "com">> >>)))

\* AWSSigV4Strategy.__init__ with botocore installed; the config gives
\* secret_access_key directly and no session_token
AwsInit(cfg, environ) ==
    LET access_key_id == LoadCredential(cfg, environ)
    IN  IF access_key_id.raised THEN access_key_id
        ELSE Built(Strategy("aws_sigv4", "aws", access_key_id.object, AwsDummyToks,
                            ConfigGet(cfg, <<Star \o amazonaws_com,
                                             Star \o <<"amazonaws", ".", "com", ".", "cn">> >>)))

\* the configs handed to the constructors: token stands for the class's own key
\* ("token", "api_key", "access_key_id")
StrategyConfigs ==
    [token : {Absent, <<>>, <<"tok-direct">>, <<"REAL_OPENAI_API_KEY">>,
              <<"REAL_GITHUB_TOKEN">>},
     allowed_hosts : {Absent, <<>>, <<api_openai_com>>, <<Star \o openai_com, openai_com>>}]

BearerFamily == {"BearerStrategy", "StripeStrategy", "GitHubStrategy", "OpenAIStrategy"}

ConstructInit ==
    /\ credentials = <<>>
    /\ telemetry_blocklist = <<>>
    /\ env \in Envs
    /\ env_at_load = env
    /\ config_file = <<>>
    /\ stats = <<>>
    /\ stats_in = <<>>
    /\ found = {}
    /\ passthroughs = 0
    /\ threads = <<>>
    /\ IdleFlow
    /\ strategy = <<>>
    /\ config = <<>>
    /\ op = "none"
    /\ gate_host = <<>>
    /\ gate_allowed = <<>>
    /\ gate_result = FALSE

\* the effect of calling the constructor `class` with cfg; a constructor that
\* raised leaves no object
Construct(class, cfg, r) ==
    /\ op' = class
    /\ config' = cfg
    /\ strategy' = IF r.raised THEN <<>> ELSE r.object
    /\ outcome' = IF r.raised THEN "raised " \o r.error ELSE "returned"
    /\ UNCHANGED <<injectorVars, flow, flow_in, logs, gateVars>>

ConstructBearer ==
    \E class \in BearerFamily : \E cfg \in StrategyConfigs :
        \E r \in {BearerFamilyInit(class, cfg, env)} : Construct(class, cfg, r)

ConstructGemini ==
    \E cfg \in StrategyConfigs :
        \E r \in {GeminiInit(cfg, env)} : Construct("GeminiStrategy", cfg, r)

ConstructAws ==
    \E cfg \in StrategyConfigs :
        \E r \in {AwsInit(cfg, env)} : Construct("AWSSigV4Strategy", cfg, r)

ConstructNext == ConstructBearer \/ ConstructGemini \/ ConstructAws

ConstructSpec == ConstructInit /\ [][ConstructNext]_vars

----------------------------------------------------------------------------
(* Claims about UniversalCredentialInjector.request *)

CredIndices == 1..Len(credentials)

\* the request part of a flow is as it was on entry
RequestUnchanged ==
    /\ flow.headers = flow_in.headers
    /\ flow.query = flow_in.query
    /\ flow.body = flow_in.body
    /\ flow.host = flow_in.host

\* the secret of credential i stands in a header or query parameter of the
\* outgoing request where the incoming request did not carry it
SecretWritten(i) ==
    LET secret == env[credentials[i].env_var] IN
    /\ ~Falsy(secret)
    /\ \/ \E n \in HeaderNames :
             Contains(flow.headers[n], secret) /\ ~Contains(flow_in.headers[n], secret)
       \/ \E n \in QueryNames :
             Contains(flow.query[n], secret) /\ ~Contains(flow_in.query[n], secret)

\* C1: after any sequence of requests, the secret of a credential has been written
\* into a header or query parameter of a request only if the request's host matches
\* that credential's own allowed_hosts.
C1_SecretOnlyToOwnHosts ==
    op = "request" =>
        \A i \in CredIndices :
            SecretWritten(i) => GateRules(credentials[i].allowed_hosts, flow_in.host)

\* C1 witness: the second request of a run carried the GitHub dummy to a GitHub
\* host and left with the GitHub secret.
C1_Witness ==
    /\ op = "request"
    /\ stats.requests_processed = 2
    /\ flow_in.host = api_github_com
    /\ \E i \in CredIndices :
          credentials[i].service_name = "github" /\ SecretWritten(i)

\* the last request() found the dummy of a credential whose allowlist lacks the host
FoundForUnauthorizedHost ==
    \E i \in CredIndices :
        /\ credentials[i].service_name \in found
        /\ ~IsHostWhitelisted(credentials[i].allowed_hosts, flow_in.host)

\* C3: whenever request() found a credential's dummy in one of its locations and
\* the host is not on that credential's allowlist, the call ends with a 403
\* response, the request unchanged and requests_blocked grown by exactly 1.
C3_BlockedRequestUntouched ==
    (op = "request" /\ FoundForUnauthorizedHost) =>
        /\ flow.response.status = 403
        /\ RequestUnchanged
        /\ stats.requests_blocked = stats_in.requests_blocked + 1

\* C8: with the fallback configuration and REAL_OPENAI_API_KEY = k, a request to
\* api.openai.com with Authorization "Bearer DUMMY_OPENAI_KEY" leaves with exactly
\* "Bearer k", no synthesized response, and credentials_injected grown by 1.
C8_HappyOpenAI ==
    (/\ op = "request"
     /\ credentials = LegacyCredentials
     /\ ~Falsy(env["REAL_OPENAI_API_KEY"])
     /\ flow_in.host = api_openai_com
     /\ flow_in.headers["Authorization"] = OpenAIBearer)
    =>
        /\ flow.headers["Authorization"] = <<"Bearer", " ">> \o env["REAL_OPENAI_API_KEY"]
        /\ flow.response = NoResponse
        /\ stats.credentials_injected = stats_in.credentials_injected + 1

\* C12: after any sequence of sequentially processed requests,
\* credentials_injected + requests_blocked + telemetry_blocked + the number of
\* requests passed through untouched = requests_processed.
C12_AccountingIdentity ==
    stats.credentials_injected + stats.requests_blocked + stats.telemetry_blocked
        + passthroughs = stats.requests_processed

\* the last request() found the dummy of a credential whose allowlist has the host
\* and whose secret is not available
FoundWithoutSecret ==
    \E i \in CredIndices :
        /\ credentials[i].service_name \in found
        /\ IsHostWhitelisted(credentials[i].allowed_hosts, flow_in.host)
        /\ Falsy(env[credentials[i].env_var])

\* C13: when request() found a credential's dummy for an allowed host and the
\* credential's secret is not available, the call ends with a 500 response, the
\* request (its dummy included) as on entry and requests_blocked grown by 1.
C13_MissingSecretFailsClosed ==
    (op = "request" /\ FoundWithoutSecret) =>
        /\ flow.response.status = 500
        /\ RequestUnchanged
        /\ stats.requests_blocked = stats_in.requests_blocked + 1

\* a telemetry list names the host: case-folded, the host is an entry or a
\* subdomain of one
TelemetryRule(list, host) ==
    \E i \in 1..Len(list) : DomainOrSubdomain(Lower(host), Lower(list[i]))

\* C15: _is_telemetry_request(host) is true iff, case-folded, host equals a
\* telemetry-list entry or ends with "." + an entry; every other host is not
\* treated as telemetry.
C15_TelemetryIffRule ==
    op = "_is_telemetry_request"
        => (gate_result <=> TelemetryRule(telemetry_blocklist, gate_host))

\* C14: for every request whose host the telemetry list names, request() ends with
\* a 418 response and telemetry_blocked grown by exactly 1, with headers and query
\* as on entry and credentials_injected and requests_blocked unchanged.
C14_TelemetryBlockedFirst ==
    (op = "request" /\ TelemetryRule(telemetry_blocklist, flow_in.host)) =>
        /\ flow.response.status = 418
        /\ stats.telemetry_blocked = stats_in.telemetry_blocked + 1
        /\ RequestUnchanged
        /\ stats.credentials_injected = stats_in.credentials_injected
        /\ stats.requests_blocked = stats_in.requests_blocked

\* C14 witness: a request to telemetry.anthropic.com, a host the Anthropic
\* credential's allowlist admits, carried that credential's dummy while the secret
\* was available, and was answered 418.
C14_Witness ==
    /\ op = "request"
    /\ credentials = LegacyCredentials
    /\ flow_in = WithApiKey(telemetry_anthropic_com, AnthropicDummy)
    /\ IsHostWhitelisted(AnthropicCred.allowed_hosts, flow_in.host)
    /\ ~Falsy(env["REAL_ANTHROPIC_API_KEY"])
    /\ flow.response.status = 418

\* no configured credential's dummy occurs in one of that credential's header
\* locations or query parameters of the incoming request
NoDummyInLocations ==
    \A i \in CredIndices :
        LET cred == credentials[i] IN
        /\ \A k \in 1..Len(cred.header_locations) :
              cred.header_locations[k].name \in HeaderNames
                  => ~Contains(flow_in.headers[cred.header_locations[k].name], cred.dummy_token)
        /\ \A k \in 1..Len(cred.query_param_names) :
              cred.query_param_names[k] \in QueryNames
                  => ~Contains(flow_in.query[cred.query_param_names[k]], cred.dummy_token)

\* C18: when the host is not a telemetry host and no credential's dummy occurs
\* literally in its configured locations, request() leaves the flow (headers,
\* query, body, response slot) unchanged and changes no counter other than
\* requests_processed.
C18_PassthroughUntouched ==
    (op = "request" /\ ~TelemetryRule(telemetry_blocklist, flow_in.host) /\ NoDummyInLocations)
        => /\ flow = flow_in
           /\ stats = Bump(stats_in, "requests_processed")

\* the value credential i had in the environment at startup stands in a header or
\* query parameter of the outgoing request where the incoming request did not
\* carry it
LoadedSecretWritten(i) ==
    LET secret == env_at_load[credentials[i].env_var] IN
    \/ \E n \in HeaderNames :
          Contains(flow.headers[n], secret) /\ ~Contains(flow_in.headers[n], secret)
    \/ \E n \in QueryNames :
          Contains(flow.query[n], secret) /\ ~Contains(flow_in.query[n], secret)

\* C19: whatever happens to the environment after startup, a request that carries
\* a credential's dummy to an allowed host is injected with the secret that was
\* resolved at startup, and the injection does not fail.
C19_SecretResolvedAtLoad ==
    op = "request" =>
        \A i \in CredIndices :
            (/\ credentials[i].service_name \in found
             /\ IsHostWhitelisted(credentials[i].allowed_hosts, flow_in.host)
             /\ ~Falsy(env_at_load[credentials[i].env_var]))
            => (LoadedSecretWritten(i) /\ flow.response.status # 500)

----------------------------------------------------------------------------
(* Claims about the strategies *)

\* C2: when validate_host refuses the host against the strategy's own
\* allowed_hosts, inject raises and leaves headers, query and body as on entry.
C2_RefusedInjectWritesNothing ==
    (op = "inject" /\ ~ValidateHost(strategy.allowed_hosts, flow_in.host))
        => (outcome = "raised" /\ RequestUnchanged /\ flow.response = flow_in.response)

\* C2 witness: OpenAIStrategy.inject refused a dummy bearer sent to a spoofed host.
C2_Witness ==
    /\ op = "inject"
    /\ strategy = OpenAIStrategy
    /\ flow_in.host = api_openai_com_evil_com
    /\ flow_in.headers["Authorization"] = OpenAIBearer
    /\ outcome = "raised"

\* C9: on every request AWSSigV4Strategy.detect accepts, inject with the default
\* allowed hosts completes, the dummy AWS headers are gone and the request carries
\* a fresh Authorization and X-Amz-Date; for s3.us-west-2.amazonaws.com the
\* signature is for service s3, region us-west-2.
C9_DetectedAwsRequestIsSigned ==
    (op = "inject" /\ strategy = AwsStrategy /\ AwsDetect(strategy, flow_in))
        => /\ outcome = "returned"
           /\ ~SearchDummy(AwsDummyToks, HeaderGet(flow, "Authorization"))
           /\ flow.headers["X-Amz-Date"] = <<"now">>
           /\ flow.headers["X-Amz-Signature"] = Absent
           /\ flow_in.host = s3_west_amazonaws_com
                 => flow.headers["Authorization"]
                        = SignedAuthorization(strategy, "s3", "us-west-2")

\* C10: no log record of an inject() call that completed contains a secret of the
\* strategy.
C10_NoSecretInLogs ==
    (op = "inject" /\ outcome = "returned")
        => \A i \in 1..Len(logs) : \A secret \in SecretsOf(strategy) :
               ~Contains(logs[i], secret)

----------------------------------------------------------------------------
(* Claims about request() on concurrent threads *)

\* the request() calls that have returned
Completed == {t \in Threads : threads[t].pc = "done"}

\* no request() call is between its entry and its return
Quiescent == \A t \in Threads : threads[t].pc \in {"idle", "done"}

\* C11: when no call is in progress, requests_processed equals the number of
\* request() calls that have completed, whatever the interleaving of the threads.
C11_NoLostIncrement ==
    Quiescent => stats.requests_processed = Cardinality(Completed)

----------------------------------------------------------------------------
(* Claims about _load_config *)

\* the configured source is missing or failed to load or parse
SourceFailed(file) ==
    \/ file.kind \in {"missing", "unparseable"}
    \/ \E i \in 1..Len(file.entries) : ~file.entries[i].complete
    \/ file.security = "null"

\* C20: when the configuration file is missing or fails to load or parse, also
\* part-way through its credential entries, the injector's credentials and
\* telemetry list are exactly those of the hardcoded fallback.
C20_FallbackOnly ==
    (op = "_load_config" /\ SourceFailed(config_file)) =>
        /\ {credentials[i] : i \in 1..Len(credentials)}
               = {LegacyCredentials[i] : i \in 1..Len(LegacyCredentials)}
        /\ telemetry_blocklist = LegacyTelemetry

----------------------------------------------------------------------------
(* Claims about detect *)

\* a header or query parameter of the flow holds a dummy credential of the strategy
CarriesDummy(s, f) ==
    \/ \E n \in SHeaderNames : SearchDummy(s.dummy, HeaderGet(f, n))
    \/ \E n \in SQueryNames : f.query[n] # Absent /\ SearchDummy(s.dummy, f.query[n])

\* C16: for every strategy and every flow that carries no dummy credential, detect
\* returns false and inject leaves the flow's headers, query and body unchanged.
C16_NoDummyNoChange ==
    ~CarriesDummy(strategy, flow_in) =>
        /\ op = "detect" => outcome = "returned False"
        /\ op = "inject" => RequestUnchanged

\* C17: detect of the Bearer, Gemini and AWS strategies leaves headers, query,
\* body and the response slot of the flow as they were, whatever it returns.
C17_DetectLeavesFlow ==
    op = "detect" => (RequestUnchanged /\ flow.response = flow_in.response)

\* C17 witness: OpenAIStrategy.detect returned True on a dummy bearer.
C17_Witness ==
    /\ op = "detect"
    /\ strategy = OpenAIStrategy
    /\ flow_in.headers["Authorization"] = OpenAIBearer
    /\ outcome = "returned True"

----------------------------------------------------------------------------
(* Claims about the strategy constructors *)

\* C21: constructing a Bearer-family, Gemini or AWS SigV4 strategy whose configured
\* allowed_hosts is an empty list is rejected, and no strategy object exists with an
\* empty allowed_hosts.
C21_NoEmptyAllowlist ==
    /\ (op \in BearerFamily \cup {"GeminiStrategy", "AWSSigV4Strategy"}
            /\ config.allowed_hosts = <<>>)
          => outcome = "raised ValueError"
    /\ (op \in BearerFamily \cup {"GeminiStrategy", "AWSSigV4Strategy"}
            /\ outcome = "returned")
          => strategy.allowed_hosts # <<>>

----------------------------------------------------------------------------
(* Claims about the responses request() synthesizes *)

\* the response table: what a synthesized response for host may be
InResponseTable(response, host) ==
    \/ /\ response.status = 418
       /\ response.body = <<"Telemetry blocked">>
    \/ /\ response.status = 403
       /\ \E i \in CredIndices :
             response.body = <<"Forbidden: ">> \o host
                                \o <<" not whitelisted for ", credentials[i].display_name>>
    \/ /\ response.status = 500
       /\ \E i \in CredIndices :
             response.body =
                 <<"Internal Error: ", credentials[i].display_name, " not configured">>

\* C22: every response request() writes has the status and body of the response
\* table: 418 "Telemetry blocked", 403 "Forbidden: <host> not whitelisted for
\* <credential name>" for a dummy found in a header or in a query parameter, 500
\* "Internal Error: <display> not configured".
C22_ResponseTable ==
    (op = "request" /\ flow.response # NoResponse)
        => InResponseTable(flow.response, flow_in.host)

\* C23: within one request() examination stops at the first credential whose dummy
\* is found: whether its injection succeeded or was refused with 403 or 500, no
\* later credential's dummy is looked up or replaced in the same request.
C23_FirstHitStops ==
    op = "request" => Cardinality(found) <= 1

\* request() logs one record with every response it writes: the number of those
\* records among the first n log records of the last call
RECURSIVE ResponseWrites(_)
ResponseWrites(n) ==
    IF n = 0 THEN 0
    ELSE ResponseWrites(n - 1) +
         (IF \/ logs[n][1] \in {"Blocked telemetry request to: ", "SECURITY: Blocked ",
                                "Cannot inject credential: "}
             \/ logs[n][Len(logs[n])] = " not set in environment"
          THEN 1 ELSE 0)

\* C24: one call of request() writes the response slot at most once and increments
\* requests_blocked at most once; once a 418, 403 or 500 was written no further
\* outcome counter is incremented for that request.
C24_ResponseWrittenOnce ==
    op = "request" =>
        /\ ResponseWrites(Len(logs)) <= 1
        /\ stats.requests_blocked <= stats_in.requests_blocked + 1
        /\ flow.response # NoResponse =>
              (stats.credentials_injected - stats_in.credentials_injected)
                  + (stats.requests_blocked - stats_in.requests_blocked)
                  + (stats.telemetry_blocked - stats_in.telemetry_blocked) <= 1

\* C25: no step of any interleaving of concurrent request() calls lowers the value
\* of requests_processed, credentials_injected, requests_blocked or
\* telemetry_blocked.
C25_CountersNeverDecrease ==
    [][\A counter \in DOMAIN stats : stats'[counter] >= stats[counter]]_vars

\* credential i's dummy is in header `name` (one of its header locations) and in
\* query parameter `param` (one of its query parameters) of the incoming request
InHeaderAndQuery(i, name, param) ==
    /\ \E k \in 1..Len(credentials[i].header_locations) :
          credentials[i].header_locations[k].name = name
    /\ \E k \in 1..Len(credentials[i].query_param_names) :
          credentials[i].query_param_names[k] = param
    /\ name \in HeaderNames /\ param \in QueryNames
    /\ Contains(flow_in.headers[name], credentials[i].dummy_token)
    /\ Contains(flow_in.query[param], credentials[i].dummy_token)

----------------------------------------------------------------------------
(* Claims about the replacement of the dummy inside a value *)

\* value with every token tok replaced by the tokens of by, everything else kept
RECURSIVE Substitute(_, _, _)
Substitute(value, tok, by) ==
    IF value = <<>> THEN <<>>
    ELSE (IF Head(value) = tok THEN by ELSE <<Head(value)>>)
             \o Substitute(Tail(value), tok, by)

\* the last request() injected a credential into a header
InjectedInHeader ==
    /\ op = "request"
    /\ stats.credentials_injected > stats_in.credentials_injected
    /\ flow.query = flow_in.query

RECURSIVE SubstituteAny(_, _, _)
SubstituteAny(value, toks, by) ==
    IF value = <<>> THEN <<>>
    ELSE (IF Head(value) \in toks THEN by ELSE <<Head(value)>>)
             \o SubstituteAny(Tail(value), toks, by)

\* C28: GeminiStrategy.inject replaces the dummy key and nothing else: a header
\* x-goog-api-key (or, without a dummy in the header, a query parameter 'key') that
\* is the dummy becomes the real key, and one that holds the dummy inside a larger
\* value keeps the surrounding text.
C28_GeminiKeepsSurroundingText ==
    (op = "inject" /\ strategy.kind = "gemini" /\ outcome = "returned") =>
        IF SearchDummy(strategy.dummy, HeaderGet(flow_in, "x-goog-api-key"))
        THEN flow.headers["x-goog-api-key"] =
                 SubstituteAny(flow_in.headers["x-goog-api-key"], strategy.dummy,
                               strategy.secret)
        ELSE (flow_in.query["key"] # Absent /\ SearchDummy(strategy.dummy, flow_in.query["key"]))
                 => flow.query["key"] =
                        SubstituteAny(flow_in.query["key"], strategy.dummy, strategy.secret)

----------------------------------------------------------------------------
(* Claims about dummies in query parameters *)

\* the incoming request carries credential i's dummy as the value of some query
\* parameter, and the host is not on the credential's allowlist
DummyInAnyQueryParam(i) ==
    /\ \E param \in QueryNames : flow_in.query[param] = credentials[i].dummy_token
    /\ ~IsHostWhitelisted(credentials[i].allowed_hosts, flow_in.host)

\* C29: a request that carries a configured dummy as the value of any query
\* parameter, whatever its name, to a host that is not on that credential's
\* allowlist (and is not a telemetry host) is answered by request() with 403.
C29_AnyQueryParamRefused ==
    (/\ op = "request"
     /\ ~IsTelemetryRequest(flow_in.host)
     /\ \E i \in CredIndices : DummyInAnyQueryParam(i))
        => flow.response.status = 403

----------------------------------------------------------------------------
(* Claims about AWSSigV4Strategy.inject and large uploads *)

\* C30: an AWSSigV4Strategy.inject that passes host validation sets
\* X-Amz-Content-Sha256 to UNSIGNED-PAYLOAD exactly when the derived service is s3,
\* the method is PUT or POST and the body is longer than 1,048,576 bytes; for a body
\* of 1 MiB or less, another method or another service, and when inject refuses the
\* host, the header is left as it was.
C30_UnsignedPayloadThreshold ==
    (op = "inject" /\ strategy.kind = "aws_sigv4") =>
        IF /\ outcome = "returned"
           /\ ExtractService(strategy, flow_in) = "s3"
           /\ flow_in.method \in {"PUT", "POST"}
           /\ flow_in.body > 1048576
        THEN flow.headers["X-Amz-Content-Sha256"] = <<"UNSIGNED-PAYLOAD">>
        ELSE flow.headers["X-Amz-Content-Sha256"] = flow_in.headers["X-Amz-Content-Sha256"]

\* C30 witness: a POST of 1,048,577 bytes to s3.us-west-2.amazonaws.com left inject
\* with X-Amz-Content-Sha256: UNSIGNED-PAYLOAD.
C30_Witness ==
    /\ op = "inject"
    /\ strategy = AwsExactStrategy
    /\ outcome = "returned"
    /\ flow_in.host = s3_west_amazonaws_com
    /\ flow_in.method = "POST"
    /\ flow_in.body = 1048577
    /\ flow_in.headers["X-Amz-Content-Sha256"] = Absent
    /\ flow.headers["X-Amz-Content-Sha256"] = <<"UNSIGNED-PAYLOAD">>

====
